---------------------------- MODULE Spec2Model ----------------------------
(***************************************************************************)
(* Model of the dataset preparation scripts of hburnt/Deep-Learning-Project *)
(*   src/Data Manipulation/create_dataset.py      (the ETL pipeline)        *)
(*   src/Data Manipulation/unpack_pickle_file.py  (pickle -> CSV converter) *)
(*                                                                         *)
(* A CSV cell is a sequence of one-character strings; the empty sequence    *)
(* is the empty cell, which pandas reads as NaN.  A DataFrame is a sequence *)
(* of row records; the field "index" of a row is its pandas index label.    *)
(***************************************************************************)
EXTENDS Integers, Sequences, FiniteSets, TLC

VARIABLES
    pc,                   \* the call create_dataset.main makes next
    status,               \* "running", "done" or "failed" (uncaught exception)
    error,                \* name of the exception that ended the run, or "none"
    sort_union,           \* whether this pandas build sorts the row-label union in concat(axis=1)
    filtered_df,          \* main's local filtered_df
    processed_df,         \* main's local processed_df
    longer_processed_df,  \* main's local longer_processed_df
    added_nutrition_df,   \* main's local added_nutrition_df
    frame,                \* locals of the stage function that returned last
    calls,                \* the stage functions that have returned, in order
    top_ids,              \* the top_recipe_ids and top_user_ids filter_interactions chose
    written,              \* names of the files create_dataset has written
    final_csv,            \* the file final_dataset.csv
    pickle_file,          \* the file ingr_map.pkl
    unpack_pc,            \* position of unpack_pickle_file.main
    loaded_data,          \* unpack_pickle_file.main's local loaded_data
    printed,              \* messages printed by unpack_pickle_file
    ingredient_mapping_csv \* the file ingredient_mapping.csv

vars == <<pc, status, error, sort_union, filtered_df, processed_df,
          longer_processed_df, added_nutrition_df, frame, calls, top_ids, written,
          final_csv, pickle_file, unpack_pc, loaded_data, printed, ingredient_mapping_csv>>

---------------------------------------------------------------------------
(* Values *)

\* NaN in an integer column (ids, ratings and technique codes are naturals)
NaN == 0 - 1
\* NaN in a string (object) column, and the empty CSV cell
NaNCell == << >>
\* NaN in a float column (a float is a pair <<mantissa, decimals>>)
NaNFloat == << >>
\* Python's None, an unbound local, a file that does not exist
None == [none |-> TRUE]
NoFile == [exists |-> FALSE]

Range(s) == {s[i] : i \in DOMAIN s}

Max(S) == CHOOSE x \in S : \A y \in S : y <= x

RECURSIVE Concat(_)
\* concatenation of a sequence of sequences
Concat(ss) == IF ss = << >> THEN << >> ELSE Head(ss) \o Concat(Tail(ss))

RECURSIVE SortLabels(_)
\* ascending sequence of a finite set of integer labels
SortLabels(S) ==
    IF S = {} THEN << >>
    ELSE LET m == CHOOSE x \in S : \A y \in S : x <= y
         IN <<m>> \o SortLabels(S \ {m})

---------------------------------------------------------------------------
(* Python string operations used by the list-cell parsers *)

Digits == {"0", "1", "2", "3", "4", "5", "6", "7", "8", "9"}
Whitespace == {" "}
Brackets == {"[", "]"}

DigitValue(c) ==
    CASE c = "0" -> 0 [] c = "1" -> 1 [] c = "2" -> 2 [] c = "3" -> 3
      [] c = "4" -> 4 [] c = "5" -> 5 [] c = "6" -> 6 [] c = "7" -> 7
      [] c = "8" -> 8 [] c = "9" -> 9

RECURSIVE LStrip(_, _)
LStrip(s, chars) ==
    IF s # << >> /\ Head(s) \in chars THEN LStrip(Tail(s), chars) ELSE s

RECURSIVE RStrip(_, _)
RStrip(s, chars) ==
    IF s # << >> /\ s[Len(s)] \in chars
    THEN RStrip(SubSeq(s, 1, Len(s) - 1), chars) ELSE s

\* str.strip(chars)
Strip(s, chars) == RStrip(LStrip(s, chars), chars)

StartsWith(s, sep) == Len(s) >= Len(sep) /\ SubSeq(s, 1, Len(sep)) = sep

RECURSIVE SplitFrom(_, _, _)
\* str.split(sep), scanning s with the current piece cur
SplitFrom(s, sep, cur) ==
    IF s = << >> THEN <<cur>>
    ELSE IF StartsWith(s, sep)
         THEN <<cur>> \o SplitFrom(SubSeq(s, Len(sep) + 1, Len(s)), sep, << >>)
         ELSE SplitFrom(Tail(s), sep, Append(cur, Head(s)))

Split(s, sep) == SplitFrom(s, sep, << >>)

RECURSIVE DigitsValue(_)
DigitsValue(s) ==
    IF s = << >> THEN 0 ELSE DigitsValue(SubSeq(s, 1, Len(s) - 1)) * 10 + DigitValue(s[Len(s)])

\* int(s) succeeds: optional surrounding whitespace, then one or more digits
IsInt(s) ==
    LET t == Strip(s, Whitespace)
    IN t # << >> /\ \A i \in DOMAIN t : t[i] \in Digits

IntValue(s) == DigitsValue(Strip(s, Whitespace))

\* float(s) succeeds: optional surrounding whitespace, digits with at most one "."
IsFloat(s) ==
    LET t == Strip(s, Whitespace)
    IN /\ \A i \in DOMAIN t : t[i] \in Digits \cup {"."}
       /\ Cardinality({i \in DOMAIN t : t[i] = "."}) <= 1
       /\ \E i \in DOMAIN t : t[i] \in Digits

\* the float as the exact decimal <<mantissa, decimals>>, trailing zeros dropped
FloatValue(s) ==
    LET t    == Strip(s, Whitespace)
        p    == Split(t, <<".">>)
        frac == IF Len(p) > 1 THEN RStrip(p[2], {"0"}) ELSE << >>
    IN <<DigitsValue(p[1] \o frac), Len(frac)>>

---------------------------------------------------------------------------
(* pandas operations *)

\* pd.read_csv: the rows of the file under a fresh RangeIndex
WithRangeIndex(rows) == [i \in DOMAIN rows |-> [index |-> i - 1] @@ rows[i]]

\* a row without its index label
Columns(row) == [f \in (DOMAIN row) \ {"index"} |-> row[f]]

Labels(df) == [i \in DOMAIN df |-> df[i].index]

RowAt(df, label) == df[CHOOSE i \in DOMAIN df : df[i].index = label]

CountOf(col, v) == Cardinality({i \in DOMAIN col : col[i] = v})

\* Series.value_counts(): the distinct values by non-increasing count.  The
\* order among equal counts is left to the sort of the build, so every
\* order that respects the counts is a possible result.
ValueCountsOrders(col) ==
    LET D == Range(col)
        n == Cardinality(D)
    IN {o \in [1..n -> D] :
           /\ \A i, j \in 1..n : i # j => o[i] # o[j]
           /\ \A i \in 1..n : i < n => CountOf(col, o[i]) >= CountOf(col, o[i + 1])}

\* .head(n).index, as the set .isin() tests against
HeadSet(order, n) == {order[i] : i \in 1..(IF Len(order) < n THEN Len(order) ELSE n)}

\* the union of the row labels in pd.concat(axis=1): sorted by the builds
\* that sort it, otherwise the left labels followed by the right-only ones
UnionLabels(left, right, sort) ==
    IF sort THEN SortLabels(Range(left) \cup Range(right))
    ELSE left \o SelectSeq(right, LAMBDA l : l \notin Range(left))

\* pd.concat([left, right], axis=1): an outer join on the row labels; a
\* label missing on one side gets that side's columns filled with NaN
ConcatColumns(left, right, leftNaN, rightNaN, sort) ==
    LET labels == UnionLabels(Labels(left), Labels(right), sort)
        side(df, nan, l) ==
            IF l \in Range(Labels(df)) THEN Columns(RowAt(df, l)) ELSE nan
    IN [k \in DOMAIN labels |->
           [index |-> labels[k]] @@ side(left, leftNaN, labels[k])
                                 @@ side(right, rightNaN, labels[k])]

\* pd.merge(left, right, left_on=key, right_on='id', how='left'): every left
\* row in order, once per matching right row, or once with the right
\* columns NaN when none matches; the result gets a fresh RangeIndex
MergeLeft(left, key, right, rightNaN) ==
    LET matches(l) == SelectSeq(right, LAMBDA r : r.id = l[key])
        joined(l)  == IF matches(l) = << >> THEN <<Columns(l) @@ rightNaN>>
                      ELSE [j \in DOMAIN matches(l) |-> Columns(l) @@ matches(l)[j]]
    IN WithRangeIndex(Concat([i \in DOMAIN left |-> joined(left[i])]))

---------------------------------------------------------------------------
(* create_dataset.filter_interactions *)

\* head(100) of the recipe counts and head(30000) of the user counts, scaled
\* to the size of the interaction files of the model
TopRecipes == 2
TopUsers == 1

InteractionColumns == {"user_id", "recipe_id", "rating", "review", "date"}

\* the filter with the two conditions joined by | instead of &
filter_interactions_either(csv, recipe_order, user_order) ==
    IF ~ ({"review", "date", "recipe_id", "user_id", "rating"} \subseteq csv.columns)
    THEN [ok |-> FALSE, error |-> "KeyError"]
    ELSE LET df == WithRangeIndex(csv.rows)
             top_recipe_ids == HeadSet(recipe_order, TopRecipes)
             top_user_ids == HeadSet(user_order, TopUsers)
             df_filtered == SelectSeq(df, LAMBDA r :
                                \/ r.recipe_id \in top_recipe_ids
                                \/ r.user_id \in top_user_ids)
         IN [ok |-> TRUE, error |-> "none", exports |-> {}, df |-> df,
             top_recipe_ids |-> top_recipe_ids, top_user_ids |-> top_user_ids,
             df_filtered |-> df_filtered]

filter_interactions(csv, recipe_order, user_order) ==
    IF ~ ({"review", "date", "recipe_id", "user_id", "rating"} \subseteq csv.columns)
    THEN [ok |-> FALSE, error |-> "KeyError"]
    ELSE LET df == WithRangeIndex(csv.rows)
             top_recipe_ids == HeadSet(recipe_order, TopRecipes)
             top_user_ids == HeadSet(user_order, TopUsers)
             df_filtered == SelectSeq(df, LAMBDA r :
                                /\ r.recipe_id \in top_recipe_ids
                                /\ r.user_id \in top_user_ids)
         IN [ok |-> TRUE, error |-> "none", exports |-> {}, df |-> df,
             top_recipe_ids |-> top_recipe_ids, top_user_ids |-> top_user_ids,
             df_filtered |-> df_filtered]

---------------------------------------------------------------------------
(* create_dataset.filter_ingredient_mapping *)

\* the column labels of a one-hot ingredient table (none when it has no row)
IngredientColumns(df) ==
    IF df = << >> THEN << >>
    ELSE [c \in DOMAIN df[1].ingredients |-> df[1].ingredients[c].column]

\* Every column label is an ingredient id.  It is renamed to the 'replaced'
\* value of the first mapping row with that id; .values[0] raises IndexError
\* when there is none.  Ids are integers and names are strings, so a rename
\* never touches a column renamed before it.
filter_ingredient_mapping(ingredient_mapping_file, ingredients_df) ==
    IF ~ ingredient_mapping_file.exists
    THEN [ok |-> FALSE, error |-> "FileNotFoundError"]
    ELSE IF ~ ({"id", "replaced"} \subseteq ingredient_mapping_file.columns)
    THEN [ok |-> FALSE, error |-> "KeyError"]
    ELSE
    LET all_ingredients_df == ingredient_mapping_file.rows
        columns == IngredientColumns(ingredients_df)
        filtered_ingredients_df ==
            Concat([c \in DOMAIN columns |->
                        SelectSeq(all_ingredients_df, LAMBDA m : m.id = columns[c])])
        found(column) == SelectSeq(filtered_ingredients_df, LAMBDA m : m.id = column)
        replacement_value(column) == found(column)[1].replaced
    IN IF \E c \in DOMAIN columns : found(columns[c]) = << >>
       THEN [ok |-> FALSE, error |-> "IndexError"]
       ELSE [ok |-> TRUE, error |-> "none", exports |-> {},
             df |-> [k \in DOMAIN ingredients_df |->
                       [ingredients_df[k] EXCEPT !.ingredients =
                           [c \in DOMAIN columns |->
                               [column |-> replacement_value(columns[c]),
                                value |-> ingredients_df[k].ingredients[c].value]]]]]

---------------------------------------------------------------------------
(* create_dataset.process_recipe_data *)

RecipeColumns == {"id", "i", "techniques", "ingredient_ids",
                  "name_tokens", "ingredient_tokens", "steps_tokens"}

\* the columns of recipe_df in a left-join row without a match
RecipeNaN == [id |-> NaN, i |-> NaN, techniques |-> NaNCell, ingredient_ids |-> NaNCell]

\* the columns of merged_df at a label merged_df does not have
MergedNaN == [user_id |-> NaN, recipe_id |-> NaN, rating |-> NaN, id |-> NaN,
              recipe_id_mapped |-> NaN, techniques |-> NaNCell,
              ingredient_ids |-> NaNCell]

\* rename of one column of a row
RenameColumn(row, old, new) ==
    [f \in ((DOMAIN row) \ {old}) \cup {new} |-> IF f = new THEN row[old] ELSE row[f]]

DropColumn(row, col) == [f \in (DOMAIN row) \ {col} |-> row[f]]

\* the pieces int() is applied to in the techniques lambda (line 68)
TechniquePieces(cell) == Split(Strip(cell, Brackets), <<",">>)

\* the pieces int() is applied to in the ingredient loops (lines 85, 92)
IngredientPieces(cell) == Split(Strip(cell, Brackets), <<",", " ">>)

ParseInts(pieces) == [k \in DOMAIN pieces |-> IntValue(pieces[k])]

\* pd.DataFrame(list of lists): a fresh RangeIndex, short lists padded with NaN
FrameOfLists(lists, col, nan) ==
    LET width == Max({Len(lists[k]) : k \in DOMAIN lists} \cup {0})
    IN [k \in DOMAIN lists |->
           [index |-> k - 1] @@
           (col :> [c \in 1..width |-> IF c <= Len(lists[k]) THEN lists[k][c] ELSE nan])]

process_recipe_data(filtered, recipe_csv, ingredient_mapping_file, sort) ==
    IF ~ ({"name_tokens", "ingredient_tokens", "steps_tokens", "id", "i",
           "techniques", "ingredient_ids"} \subseteq recipe_csv.columns)
    THEN [ok |-> FALSE, error |-> "KeyError"]
    ELSE
    LET recipe_df == recipe_csv.rows
        joined == MergeLeft(filtered, "recipe_id", recipe_df, RecipeNaN)
        renamed == [k \in DOMAIN joined |-> RenameColumn(joined[k], "i", "recipe_id_mapped")]
        merged_df == SelectSeq(renamed, LAMBDA r : r.techniques # NaNCell)
        techniques_ok == \A k \in DOMAIN merged_df :
                            \A p \in Range(TechniquePieces(merged_df[k].techniques)) : IsInt(p)
        lists == [k \in DOMAIN merged_df |->
                     ParseInts(TechniquePieces(merged_df[k].techniques))]
        techniques_df == FrameOfLists(lists, "technique", NaN)
        width == IF techniques_df = << >> THEN 0 ELSE Len(techniques_df[1].technique)
        astype_ok == \A k \in DOMAIN techniques_df :
                        NaN \notin Range(techniques_df[k].technique)
        with_techniques ==
            ConcatColumns(merged_df, techniques_df, MergedNaN,
                          [technique |-> [c \in 1..width |-> NaN]], sort)
        processed1 == [k \in DOMAIN with_techniques |->
                          DropColumn(with_techniques[k], "techniques")]
        ids_present == \A k \in DOMAIN merged_df : merged_df[k].ingredient_ids # NaNCell
        ids_ok == \A k \in DOMAIN merged_df :
                     \A p \in Range(IngredientPieces(merged_df[k].ingredient_ids)) : IsInt(p)
        ingredient_ids(k) == ParseInts(IngredientPieces(merged_df[k].ingredient_ids))
        unique_ingredient_ids == UNION {Range(ingredient_ids(k)) : k \in DOMAIN merged_df}
        \* the iteration order of a set of small integers is ascending
        id_order == SortLabels(unique_ingredient_ids)
        ingredients_df ==
            [k \in DOMAIN merged_df |->
                [index |-> k - 1,
                 ingredients |-> [c \in DOMAIN id_order |->
                     [column |-> id_order[c],
                      value |-> IF id_order[c] \in Range(ingredient_ids(k)) THEN 1 ELSE 0]]]]
        mapped == filter_ingredient_mapping(ingredient_mapping_file, ingredients_df)
        names == IngredientColumns(mapped.df)
        with_ingredients ==
            ConcatColumns(processed1, mapped.df,
                          DropColumn(MergedNaN, "techniques") @@
                              [technique |-> [c \in 1..width |-> NaN]],
                          [ingredients |-> [c \in DOMAIN names |->
                                               [column |-> names[c], value |-> NaN]]],
                          sort)
        processed_out == [k \in DOMAIN with_ingredients |->
                             DropColumn(with_ingredients[k], "ingredient_ids")]
    IN IF ~ techniques_ok THEN [ok |-> FALSE, error |-> "ValueError"]
       ELSE IF ~ astype_ok THEN [ok |-> FALSE, error |-> "ValueError"]
       ELSE IF ~ ids_present THEN [ok |-> FALSE, error |-> "AttributeError"]
       ELSE IF ~ ids_ok THEN [ok |-> FALSE, error |-> "ValueError"]
       ELSE IF ~ mapped.ok THEN [ok |-> FALSE, error |-> mapped.error]
       ELSE [ok |-> TRUE, error |-> "none", exports |-> mapped.exports,
             merged_df |-> merged_df,
             techniques_df |-> techniques_df, ingredients_df |-> ingredients_df,
             renamed_ingredients_df |-> mapped.df, processed_df |-> processed_out]

---------------------------------------------------------------------------
(* create_dataset.process_raw_recipes *)

RawRecipeColumns == {"id", "name", "minutes", "contributor_id", "submitted", "tags",
                     "nutrition", "n_steps", "steps", "description", "ingredients",
                     "n_ingredients"}

\* NaN in a column of Python strings
NaNString == "NaN"

\* the columns of raw_recipe_df in a left-join row without a match
RawRecipeNaN == [id |-> NaN, name |-> NaNString, minutes |-> NaN, nutrition |-> NaNCell]

\* process_raw_recipes with the export of recipe_mapping.csv (lines 191-193,
\* commented out in the source) enabled
process_raw_recipes_exporting(raw_recipes_csv, processed) ==
    IF ~ ({"contributor_id", "submitted", "tags", "steps", "description",
           "ingredients", "id"} \subseteq raw_recipes_csv.columns)
    THEN [ok |-> FALSE, error |-> "KeyError"]
    ELSE
    LET recipe_ids == {processed[k].recipe_id : k \in DOMAIN processed}
        filtered_raw_recipe_df ==
            SelectSeq(raw_recipes_csv.rows, LAMBDA r : r.id \in recipe_ids)
    IN [ok |-> TRUE, error |-> "none", exports |-> {"recipe_mapping.csv"},
        filtered_raw_recipe_df |-> filtered_raw_recipe_df,
        processed_df_mapped |->
            MergeLeft(processed, "recipe_id", filtered_raw_recipe_df,
                      [id |-> NaN, name |-> "NaN", minutes |-> NaN, nutrition |-> << >>])]

\* The join gives both tables' id columns, id_x and id_y; id_x is renamed to
\* id and id_y dropped, which is the left row's id (@@ keeps the left value).
process_raw_recipes(raw_recipes_csv, processed) ==
    IF ~ ({"contributor_id", "submitted", "tags", "steps", "description",
           "ingredients", "id"} \subseteq raw_recipes_csv.columns)
    THEN [ok |-> FALSE, error |-> "KeyError"]
    ELSE
    LET raw_recipe_df == raw_recipes_csv.rows
        recipe_ids == {processed[k].recipe_id : k \in DOMAIN processed}
        filtered_raw_recipe_df == SelectSeq(raw_recipe_df, LAMBDA r : r.id \in recipe_ids)
        processed_df_mapped ==
            MergeLeft(processed, "recipe_id", filtered_raw_recipe_df, RawRecipeNaN)
    IN [ok |-> TRUE, error |-> "none", exports |-> {},
        filtered_raw_recipe_df |-> filtered_raw_recipe_df,
        processed_df_mapped |-> processed_df_mapped]

---------------------------------------------------------------------------
(* create_dataset.process_nutrition_column *)

NutritionColumns == <<"calories", "percent_fat", "percent_sugar", "percent_sodium",
                      "percent_protein", "percent_sat_fat", "percent_carb">>

\* the pieces float() is applied to in the nutrition lambda (line 212)
NutritionPieces(cell) == Split(Strip(cell, Brackets), <<",">>)

ParseFloats(pieces) == [k \in DOMAIN pieces |-> FloatValue(pieces[k])]

\* a row of the same columns with every value NaN
NaNLike(row) ==
    [f \in DOMAIN row |->
        CASE f \in {"techniques", "ingredient_ids", "nutrition"} -> NaNCell
          [] f = "name" -> NaNString
          [] f = "technique" -> [c \in DOMAIN row[f] |-> NaN]
          [] f = "ingredients" ->
                [c \in DOMAIN row[f] |-> [column |-> row[f][c].column, value |-> NaN]]
          [] f \in Range(NutritionColumns) -> NaNFloat
          [] OTHER -> NaN]

\* pd.DataFrame(lists, columns=NutritionColumns): the lists are padded to the
\* longest one, and the constructor raises unless that many columns were named
process_nutrition_column(df_in, sort) ==
    LET df == SelectSeq(df_in, LAMBDA r : r.nutrition # NaNCell)
        floats_ok == \A k \in DOMAIN df :
                        \A p \in Range(NutritionPieces(df[k].nutrition)) : IsFloat(p)
        lists == [k \in DOMAIN df |-> ParseFloats(NutritionPieces(df[k].nutrition))]
        padded == FrameOfLists(lists, "values", NaNFloat)
        columns_ok == padded = << >> \/ Len(padded[1].values) = Len(NutritionColumns)
        nutrition_df ==
            [k \in DOMAIN padded |->
                [index |-> padded[k].index] @@
                [f \in Range(NutritionColumns) |->
                    padded[k].values[CHOOSE c \in DOMAIN NutritionColumns :
                                         NutritionColumns[c] = f]]]
        concatenated ==
            ConcatColumns(df, nutrition_df,
                          IF df = << >> THEN << >> ELSE Columns(NaNLike(df[1])),
                          [f \in Range(NutritionColumns) |-> NaNFloat], sort)
        processed_out == [k \in DOMAIN concatenated |->
                             DropColumn(concatenated[k], "nutrition")]
    IN IF ~ floats_ok THEN [ok |-> FALSE, error |-> "ValueError"]
       ELSE IF ~ columns_ok THEN [ok |-> FALSE, error |-> "ValueError"]
       ELSE [ok |-> TRUE, error |-> "none", exports |-> {}, df |-> df, lists |-> lists,
             nutrition_df |-> nutrition_df, processed_df |-> processed_out]

---------------------------------------------------------------------------
(* unpack_pickle_file *)

\* load_pickle: the object of the file, or a message and None when the file
\* is missing (FileNotFoundError) or pickle.load raises
load_pickle(file) ==
    IF ~ file.exists THEN [data |-> None, printed |-> <<"File not found!">>]
    ELSE IF file.corrupt THEN [data |-> None, printed |-> <<"Error loading pickle file:">>]
    ELSE [data |-> file.data, printed |-> << >>]

\* main without the test of loaded_data: pd.DataFrame(None) is an empty table
export_csv_unchecked(loaded, file) ==
    IF loaded # None
    THEN [exists |-> TRUE, columns |-> loaded.columns, rows |-> loaded.rows]
    ELSE [exists |-> TRUE, columns |-> {}, rows |-> << >>]

\* lines 28-36 of main: the CSV file after them, given the file before
export_csv(loaded, file) ==
    IF loaded # None
    THEN [exists |-> TRUE, columns |-> loaded.columns, rows |-> loaded.rows]
    ELSE file

---------------------------------------------------------------------------
(* Input files *)

\* rows of an interaction file given to filter_interactions alone, and to main
MaxInteractions == 3
MaxPipelineInteractions == 2

Users == {1, 2}
Recipes == {1, 2, 3}
Ratings == {5}

SeqsUpTo(S, n) == UNION {[1..k -> S] : k \in 0..n}

\* the sequences over S in which no element occurs twice
SeqsWithoutRepeats(S) ==
    {s \in SeqsUpTo(S, Cardinality(S)) : \A i, j \in DOMAIN s : i # j => s[i] # s[j]}

InteractionRows == [user_id : Users, recipe_id : Recipes, rating : Ratings]

\* recipe 1 five times, recipe 2 three times, recipe 3 once
ScenarioInteractions ==
    [k \in 1..9 |-> [user_id |-> 1, rating |-> 5,
                     recipe_id |-> IF k <= 5 THEN 1 ELSE IF k <= 8 THEN 2 ELSE 3]]

\* a file without its review column
NoReviewFile == [columns |-> InteractionColumns \ {"review"}, rows |-> << >>]

\* main runs on the interactions with the recipes the recipe files describe
PipelineInteractionFiles ==
    {[columns |-> InteractionColumns, rows |-> r] :
        r \in SeqsUpTo({i \in InteractionRows : i.recipe_id # 3}, MaxPipelineInteractions)}
    \cup {NoReviewFile}

AllInteractionFiles ==
    {[columns |-> InteractionColumns, rows |-> r] :
        r \in SeqsUpTo(InteractionRows, MaxInteractions)}
    \cup {NoReviewFile, [columns |-> InteractionColumns, rows |-> ScenarioInteractions]}

RecipeRows == {
    [id |-> 1, i |-> 10, techniques |-> <<"[", "1", ",", " ", "0", ",", " ", "2", "]">>, ingredient_ids |-> <<"[", "1", ",", " ", "2", "]">>],
    [id |-> 2, i |-> 20, techniques |-> <<"[", "0", ",", " ", "1", ",", " ", "1", "]">>, ingredient_ids |-> <<"[", "2", "]">>],
    [id |-> 2, i |-> 20, techniques |-> <<"[", "1", ",", " ", "0", "]">>, ingredient_ids |-> <<"[", "1", "]">>],
    [id |-> 1, i |-> 10, techniques |-> <<"[", "1", ",", " ", "0", ",", " ", "2", "]">>, ingredient_ids |-> <<"[", "1", ",", "2", "]">>]}

\* id is the key of a recipe table: no two rows of a file share it
UniqueIds(rows) == \A i, j \in DOMAIN rows : i # j => rows[i].id # rows[j].id

RecipeFiles ==
    {[columns |-> RecipeColumns, rows |-> r] :
        r \in {t \in SeqsWithoutRepeats(RecipeRows) : UniqueIds(t)}}

RawRecipeRows == {
    [id |-> 1, name |-> "pasta", minutes |-> 30,
     nutrition |-> <<"[", "1", "0", "0", ".", "0", ",", " ", "2", "0", ".", "0", ",", " ", "5", ".", "0", ",", " ", "3", ".", "0", ",", " ", "1", "0", ".", "0", ",", " ", "2", ".", "0", ",", " ", "1", "5", ".", "0", "]">>],
    [id |-> 2, name |-> "soup", minutes |-> 15,
     nutrition |-> <<"[", "5", "1", ".", "5", ",", " ", "0", ".", "0", ",", " ", "1", "3", ".", "0", ",", " ", "0", ".", "0", ",", " ", "2", ".", "0", ",", " ", "0", ".", "0", ",", " ", "4", ".", "0", "]">>],
    [id |-> 2, name |-> "soup", minutes |-> 15,
     nutrition |-> <<"[", "5", "1", ".", "5", ",", " ", "0", ".", "0", ",", " ", "1", "3", ".", "0", ",", " ", "0", ".", "0", ",", " ", "2", ".", "0", ",", " ", "0", ".", "0", "]">>],
    [id |-> 2, name |-> "soup", minutes |-> 15,
     nutrition |-> <<"[", "5", "1", ".", "5", ",", " ", "0", ".", "0", ",", " ", "1", "3", ".", "0", ",", " ", "0", ".", "0", ",", " ", "2", ".", "0", ",", " ", "0", ".", "0", ",", " ", "4", ".", "0", ",", " ", "1", ".", "0", "]">>]}

RawRecipeFiles ==
    {[columns |-> RawRecipeColumns, rows |-> r] :
        r \in {t \in SeqsWithoutRepeats(RawRecipeRows) : UniqueIds(t)}}

MappingRows == {[id |-> 1, replaced |-> "salt"], [id |-> 2, replaced |-> "salt"],
                [id |-> 2, replaced |-> "sugar"]}

\* ingr_map.pkl: missing, not a pickle, a pickled None, or a pickled table
PickleFiles ==
    {NoFile, [exists |-> TRUE, corrupt |-> TRUE, data |-> None],
     [exists |-> TRUE, corrupt |-> FALSE, data |-> None]}
    \cup {[exists |-> TRUE, corrupt |-> FALSE,
           data |-> [columns |-> {"id", "replaced"}, rows |-> r]] :
              r \in SeqsWithoutRepeats(MappingRows)}

---------------------------------------------------------------------------
(* create_dataset.main *)

pipeline_vars == <<pc, status, error, sort_union, filtered_df, processed_df,
                   longer_processed_df, added_nutrition_df, frame, calls, top_ids,
                   written, final_csv>>

unpack_vars == <<pickle_file, unpack_pc, loaded_data, printed, ingredient_mapping_csv>>

\* an exception no caller catches ends the process: the locals are gone,
\* the files already written stay
Raise(e) ==
    /\ status' = "failed"
    /\ error' = e
    /\ filtered_df' = None
    /\ processed_df' = None
    /\ longer_processed_df' = None
    /\ added_nutrition_df' = None
    /\ frame' = None
    /\ UNCHANGED <<pc, sort_union, calls, top_ids, final_csv>>

\* line 233, reading RAW_interactions.csv
FilterInteractions(files) ==
    /\ status = "running" /\ pc = "filter_interactions"
    /\ \E csv \in files :
         \E recipe_order \in ValueCountsOrders([k \in DOMAIN csv.rows |-> csv.rows[k].recipe_id]) :
           \E user_order \in ValueCountsOrders([k \in DOMAIN csv.rows |-> csv.rows[k].user_id]) :
             LET r == filter_interactions(csv, recipe_order, user_order)
             IN IF r.ok
                THEN /\ filtered_df' = r.df_filtered
                     /\ frame' = [fn |-> "filter_interactions"] @@ r
                     /\ calls' = Append(calls, "filter_interactions")
                     /\ top_ids' = [recipe_ids |-> r.top_recipe_ids,
                                    user_ids |-> r.top_user_ids]
                     /\ written' = written \cup r.exports
                     /\ pc' = "process_recipe_data"
                     /\ UNCHANGED <<status, error, sort_union, processed_df,
                                    longer_processed_df, added_nutrition_df, final_csv>>
                ELSE Raise(r.error) /\ UNCHANGED written
    /\ UNCHANGED unpack_vars

\* line 249, reading PP_recipes.csv and ingredient_mapping.csv
ProcessRecipeData ==
    /\ status = "running" /\ pc = "process_recipe_data"
    /\ \E recipe_csv \in RecipeFiles :
         LET r == process_recipe_data(filtered_df, recipe_csv, ingredient_mapping_csv,
                                      sort_union)
         IN IF r.ok
            THEN /\ processed_df' = r.processed_df
                 /\ frame' = [fn |-> "process_recipe_data"] @@ r
                 /\ calls' = Append(calls, "process_recipe_data")
                 /\ written' = written \cup r.exports
                 /\ pc' = "process_raw_recipes"
                 /\ UNCHANGED <<status, error, sort_union, filtered_df, top_ids,
                                longer_processed_df, added_nutrition_df, final_csv>>
            ELSE Raise(r.error) /\ UNCHANGED written
    /\ UNCHANGED unpack_vars

\* line 255, reading RAW_recipes.csv
ProcessRawRecipes ==
    /\ status = "running" /\ pc = "process_raw_recipes"
    /\ \E raw_recipes_csv \in RawRecipeFiles :
         LET r == process_raw_recipes(raw_recipes_csv, processed_df)
         IN IF r.ok
            THEN /\ longer_processed_df' = r.processed_df_mapped
                 /\ frame' = [fn |-> "process_raw_recipes"] @@ r
                 /\ calls' = Append(calls, "process_raw_recipes")
                 /\ written' = written \cup r.exports
                 /\ pc' = "process_nutrition_column"
                 /\ UNCHANGED <<status, error, sort_union, filtered_df, top_ids,
                                processed_df, added_nutrition_df, final_csv>>
            ELSE Raise(r.error) /\ UNCHANGED written
    /\ UNCHANGED unpack_vars

\* line 258
ProcessNutritionColumn ==
    /\ status = "running" /\ pc = "process_nutrition_column"
    /\ LET r == process_nutrition_column(longer_processed_df, sort_union)
       IN IF r.ok
          THEN /\ added_nutrition_df' = r.processed_df
               /\ frame' = [fn |-> "process_nutrition_column"] @@ r
               /\ calls' = Append(calls, "process_nutrition_column")
               /\ written' = written \cup r.exports
               /\ pc' = "to_csv"
               /\ UNCHANGED <<status, error, sort_union, filtered_df, top_ids,
                              processed_df, longer_processed_df, final_csv>>
          ELSE Raise(r.error) /\ UNCHANGED written
    /\ UNCHANGED unpack_vars

\* line 271: to_csv(index=False) writes the columns without the row labels
WriteFinalCsv ==
    /\ status = "running" /\ pc = "to_csv"
    /\ final_csv' = [exists |-> TRUE,
                     rows |-> [k \in DOMAIN added_nutrition_df |->
                                  Columns(added_nutrition_df[k])]]
    /\ written' = written \cup {"final_dataset.csv"}
    /\ pc' = "end"
    /\ status' = "done"
    /\ UNCHANGED <<error, sort_union, filtered_df, top_ids, processed_df,
                   longer_processed_df, added_nutrition_df, frame, calls>>
    /\ UNCHANGED unpack_vars

---------------------------------------------------------------------------
(* unpack_pickle_file.main *)

\* line 25
LoadPickle ==
    /\ unpack_pc = "load_pickle"
    /\ LET r == load_pickle(pickle_file)
       IN /\ loaded_data' = r.data
          /\ printed' = printed \o r.printed
    /\ unpack_pc' = "export"
    /\ UNCHANGED <<pickle_file, ingredient_mapping_csv>>
    /\ UNCHANGED pipeline_vars

\* lines 28-36
ExportCsv ==
    /\ unpack_pc = "export"
    /\ ingredient_mapping_csv' = export_csv(loaded_data, ingredient_mapping_csv)
    /\ printed' = IF ingredient_mapping_csv' # ingredient_mapping_csv
                  THEN Append(printed, "DataFrame exported to") ELSE printed
    /\ unpack_pc' = "end"
    /\ UNCHANGED <<pickle_file, loaded_data>>
    /\ UNCHANGED pipeline_vars

---------------------------------------------------------------------------
(* Specifications *)

PipelineInit ==
    /\ pc = "filter_interactions"
    /\ status = "running"
    /\ error = "none"
    /\ sort_union \in BOOLEAN
    /\ filtered_df = None
    /\ processed_df = None
    /\ longer_processed_df = None
    /\ added_nutrition_df = None
    /\ frame = None
    /\ calls = << >>
    /\ top_ids = None
    /\ written = {}
    /\ final_csv = NoFile

UnpackInit ==
    /\ pickle_file \in PickleFiles
    /\ unpack_pc = "load_pickle"
    /\ loaded_data = None
    /\ printed = << >>
    /\ ingredient_mapping_csv = NoFile

\* the converter and the pipeline are two scripts run on the same directory
Init == PipelineInit /\ UnpackInit

Next ==
    \/ FilterInteractions(PipelineInteractionFiles)
    \/ ProcessRecipeData
    \/ ProcessRawRecipes
    \/ ProcessNutritionColumn
    \/ WriteFinalCsv
    \/ LoadPickle
    \/ ExportCsv

Spec == Init /\ [][Next]_vars

\* filter_interactions alone, on every interaction file of the bounds
FilterNext == FilterInteractions(AllInteractionFiles)

FilterSpec == Init /\ [][FilterNext]_vars

---------------------------------------------------------------------------
(* Properties *)

\* the stage function fn was the last to return, and its locals are in frame
Returned(fn) == frame # None /\ frame.fn = fn

\* the interaction fields of the rows of a table
Base(df) == [k \in DOMAIN df |->
                [user_id |-> df[k].user_id, recipe_id |-> df[k].recipe_id,
                 rating |-> df[k].rating]]

SameRows(a, b) == \A r \in Range(a) \cup Range(b) : CountOf(a, r) = CountOf(b, r)

\* S holds the n most frequent values of col (all of them when there are fewer)
IsTopSet(S, col, n) ==
    /\ S \subseteq Range(col)
    /\ Cardinality(S) = (IF Cardinality(Range(col)) < n THEN Cardinality(Range(col)) ELSE n)
    /\ \A a \in S : \A b \in Range(col) \ S : CountOf(col, a) >= CountOf(col, b)

\* C1: every row of final_dataset.csv has a user_id among the top-K user ids
\* and a recipe_id among the top-N recipe ids of the raw interactions; no
\* row with a missing or other id is in the output.
C1_FinalRowsWithinTop ==
    final_csv.exists =>
        \A k \in DOMAIN final_csv.rows :
            /\ final_csv.rows[k].user_id \in top_ids.user_ids
            /\ final_csv.rows[k].recipe_id \in top_ids.recipe_ids

\* C2: filter_interactions returns exactly the raw rows whose recipe_id is in
\* the top-N recipe set and whose user_id is in the top-K user set, in their
\* original order and under their original labels, so never more rows than
\* the raw table has; on the 5/3/1 scenario with N = 2 it returns the eight
\* rows of the two most frequent recipes.
C2_FilterIsIntersection ==
    Returned("filter_interactions") =>
        LET raw == frame.df
            recipes == [k \in DOMAIN raw |-> raw[k].recipe_id]
            users == [k \in DOMAIN raw |-> raw[k].user_id]
        IN /\ IsTopSet(top_ids.recipe_ids, recipes, TopRecipes)
           /\ IsTopSet(top_ids.user_ids, users, TopUsers)
           /\ filtered_df = SelectSeq(raw, LAMBDA r :
                                /\ r.recipe_id \in top_ids.recipe_ids
                                /\ r.user_id \in top_ids.user_ids)
           /\ Len(filtered_df) <= Len(raw)
           /\ Base(raw) = ScenarioInteractions =>
                 Base(filtered_df) = SubSeq(ScenarioInteractions, 1, 8)

\* C2 witness: the filter removed a row whose recipe is in the top-N set
\* because its user is outside the top-K set, and a row of a recipe outside
\* the top-N set.
C2_Witness ==
    /\ Returned("filter_interactions")
    /\ \E k \in DOMAIN frame.df :
          /\ frame.df[k].recipe_id \in top_ids.recipe_ids
          /\ frame.df[k].user_id \notin top_ids.user_ids
          /\ frame.df[k] \notin Range(filtered_df)
    /\ \E k \in DOMAIN frame.df : frame.df[k].recipe_id \notin top_ids.recipe_ids
    /\ filtered_df # << >>

\* C3: in the table process_recipe_data returns, the technique_i columns of
\* every row hold the integers of that same row's techniques list, position
\* by position; no technique cell is missing and there are as many technique
\* columns as the list is long.
C3_TechniquesOfSameRow ==
    Returned("process_recipe_data") =>
        \A k \in DOMAIN processed_df :
            LET row == processed_df[k]
            IN /\ row.index \in Range(Labels(frame.merged_df))
               /\ NaN \notin Range(row.technique)
               /\ row.technique =
                     ParseInts(TechniquePieces(RowAt(frame.merged_df, row.index).techniques))

RECURSIVE SumSeq(_)
SumSeq(s) == IF s = << >> THEN 0 ELSE Head(s) + SumSeq(Tail(s))

\* C4: in every row process_recipe_data returns, each ingredient indicator is
\* 1 exactly when the ingredient id is in that row's ingredient_ids list and
\* 0 otherwise, and the indicators sum to the number of entries of the list.
C4_OneHotOfSameRow ==
    Returned("process_recipe_data") =>
        \A k \in DOMAIN processed_df :
            LET row == processed_df[k]
                ids == IngredientColumns(frame.ingredients_df)
                list == ParseInts(IngredientPieces(
                            RowAt(frame.merged_df, row.index).ingredient_ids))
            IN /\ row.index \in Range(Labels(frame.merged_df))
               /\ \A c \in DOMAIN ids :
                     row.ingredients[c].value = (IF ids[c] \in Range(list) THEN 1 ELSE 0)
               /\ SumSeq([c \in DOMAIN ids |-> row.ingredients[c].value]) = Len(list)

\* C5: in every row process_nutrition_column returns, the seven nutrition
\* columns hold, in order, the seven values of that same row's nutrition list.
C5_NutritionRoundTrip ==
    Returned("process_nutrition_column") =>
        \A k \in DOMAIN added_nutrition_df :
            LET row == added_nutrition_df[k]
            IN /\ row.index \in Range(Labels(frame.df))
               /\ [c \in DOMAIN NutritionColumns |-> row[NutritionColumns[c]]] =
                     ParseFloats(NutritionPieces(RowAt(frame.df, row.index).nutrition))

\* C6: the rename of the one-hot columns is injective: no two ingredient ids
\* get the same column name.
C6_RenameInjective ==
    Returned("process_recipe_data") =>
        LET names == IngredientColumns(frame.renamed_ingredients_df)
        IN \A c, d \in DOMAIN names : c # d => names[c] # names[d]

\* C7: process_nutrition_column returns a table only when every present
\* nutrition list has exactly seven values, and then no nutrition column of
\* a row with a nutrition value is missing.
C7_NutritionLengthChecked ==
    Returned("process_nutrition_column") =>
        /\ \A k \in DOMAIN frame.df :
              Len(NutritionPieces(frame.df[k].nutrition)) = Len(NutritionColumns)
        /\ \A k \in DOMAIN frame.nutrition_df :
              \A c \in DOMAIN NutritionColumns :
                  frame.nutrition_df[k][NutritionColumns[c]] # NaNFloat

\* C8: the pipeline writes no file but final_dataset.csv, writes it only
\* when all four stages have returned, and a run that a stage's exception
\* ended has written no file.
C8_NoPartialOutput ==
    /\ written # {} =>
          /\ written = {"final_dataset.csv"}
          /\ status = "done"
    /\ final_csv.exists =>
          /\ status = "done" /\ pc = "end"
          /\ calls = <<"filter_interactions", "process_recipe_data",
                       "process_raw_recipes", "process_nutrition_column">>
          /\ final_csv.rows = [k \in DOMAIN added_nutrition_df |->
                                  Columns(added_nutrition_df[k])]
    /\ status = "done" => final_csv.exists
    /\ status = "failed" => written = {} /\ ~ final_csv.exists /\ error # "none"

\* C8 witness: a run ended by the IndexError of an ingredient id without a
\* mapping row, after filter_interactions had returned, with nothing written.
C8_Witness ==
    /\ status = "failed" /\ error = "IndexError"
    /\ pc = "process_recipe_data"
    /\ written = {} /\ ~ final_csv.exists

\* the load of ingr_map.pkl gives a data object
LoadSucceeds == pickle_file.exists /\ ~ pickle_file.corrupt /\ pickle_file.data # None

\* C9: when ingr_map.pkl is missing or does not unpickle, load_pickle prints
\* a message and returns no data and main writes no ingredient_mapping.csv;
\* when the load gives a data object the file is written from it; the file
\* exists if and only if main has run with a load that gave a data object.
C9_CsvIffLoaded ==
    /\ unpack_pc # "load_pickle" =>
          /\ loaded_data = (IF LoadSucceeds THEN pickle_file.data ELSE None)
          /\ (~ pickle_file.exists \/ pickle_file.corrupt) => Len(printed) >= 1
    /\ ingredient_mapping_csv.exists <=> (unpack_pc = "end" /\ LoadSucceeds)
    /\ ingredient_mapping_csv.exists =>
          /\ ingredient_mapping_csv.columns = pickle_file.data.columns
          /\ ingredient_mapping_csv.rows = pickle_file.data.rows

\* C9 witness: main has ended on a file that does not unpickle, a message
\* was printed and no CSV exists.
C9_Witness ==
    /\ unpack_pc = "end"
    /\ pickle_file.exists /\ pickle_file.corrupt
    /\ printed = <<"Error loading pickle file:">>
    /\ ~ ingredient_mapping_csv.exists

\* C10: the rows of the final table are, one to one, retained interaction
\* rows: the column-wise concatenations of process_recipe_data and
\* process_nutrition_column and the left join of process_raw_recipes leave
\* the rows what they were, every row of final_dataset.csv is an interaction
\* row of filtered_df, and rows of one recipe_id carry the same recipe fields.
C10_OneRowPerRetainedInteraction ==
    /\ Returned("process_recipe_data") =>
          SameRows(Base(processed_df), Base(frame.merged_df))
    /\ Returned("process_raw_recipes") =>
          SameRows(Base(longer_processed_df), Base(processed_df))
    /\ Returned("process_nutrition_column") =>
          SameRows(Base(added_nutrition_df), Base(frame.df))
    /\ final_csv.exists =>
          /\ \A r \in Range(Base(final_csv.rows)) :
                CountOf(Base(final_csv.rows), r) <= CountOf(Base(filtered_df), r)
          /\ \A i, j \in DOMAIN final_csv.rows :
                final_csv.rows[i].recipe_id = final_csv.rows[j].recipe_id =>
                    /\ final_csv.rows[i].name = final_csv.rows[j].name
                    /\ final_csv.rows[i].technique = final_csv.rows[j].technique
                    /\ final_csv.rows[i].calories = final_csv.rows[j].calories

=============================================================================
